---- MODULE Spec2Model ----
(***************************************************************************)
(* orion-error: the two-tier error reason (StructReason), the structured   *)
(* error (StructError) with its builder operations, the reason conversion  *)
(* (convert_error / conv / err_conv) and the "owe" adaptation of foreign   *)
(* errors.  A Result value flows through a chain of these operations; each *)
(* action is one operation of the library applied to the Result.           *)
(*                                                                         *)
(* Encoding of Rust values:                                                *)
(*   Option<String>     None = << >>, Some(s) = << s >>                    *)
(*   UvsReason          a record [kind, msg] (+ pos for DataError, + conf  *)
(*                      for ConfigError)                                   *)
(*   domain reason      a record [ty, tag] (+ uvs for a variant wrapping a *)
(*                      UvsReason); ty is the Rust enum's name             *)
(*   StructReason<T>    [arm |-> "Universal", uvs] or [arm |-> "Domain",   *)
(*                      dom]                                               *)
(*   StructError<T>     [cls |-> "struct", R |-> T, reason, detail,        *)
(*                      position, target, context]; context is the item    *)
(*                      list of ErrContext, a sequence of <<key, value>>   *)
(*   foreign error E    [cls |-> "foreign", msg]                           *)
(*   Result<V, E>       [tag |-> "Ok", ety, val] or [tag |-> "Err", ety,   *)
(*                      err]; ety is the static error type of the Result   *)
(*   OperationContext   [target, context, result, exit_log]; context is    *)
(*                      the item list of CallContext                       *)
(*   OperationScope     [mark_success]; the context it borrows is opctx    *)
(*   log line           [level, prefix, text]                              *)
(*                                                                         *)
(* Spec is the chain of operations on a Result.  CtxSpec is the life of    *)
(* one OperationContext: it is built, recorded into, marked, guarded by a  *)
(* scope, attached to the error of the Result and dropped.  OrderSpec is   *)
(* one call of place_order of examples/order_case.rs, statement by         *)
(* statement.                                                              *)
(***************************************************************************)
EXTENDS Integers, Sequences, FiniteSets, TLC

VARIABLES
    res,      \* the Result the chain has produced so far
    input,    \* the Result the last operation was applied to (its `self`)
    op,       \* the name of the last operation applied ("init" at the start)
    arg,      \* the argument of the last operation
    steps,    \* the number of operations applied so far
    origin,   \* what the chain started from: Ok with its value, or Err; of a
              \* place_order call, the call as it was entered
    opctx,    \* the OperationContext of the operation in progress
    scope,    \* the OperationScope guard borrowing opctx, if one is alive
    log,      \* the log lines emitted so far, oldest first
    alive,    \* opctx has not been dropped yet
    before,   \* opctx, scope, log and alive as they were before the last operation
    call,     \* the arguments of the place_order call in progress and its storage
    marks     \* the marking calls made on the last guard, from its creation on

vars == <<res, input, op, arg, steps, origin, opctx, scope, log, alive, before, call, marks>>

(* ------------------------------ bounds --------------------------------- *)

\* the longest chain of operations applied to one Result
MaxSteps == 2

\* the longest context item list an error is grown to
MaxItems == 2

\* the most operations in the life of one OperationContext
MaxOps == 4

\* messages of foreign errors and payloads of universal reasons
Msgs == {"boom", "disk full"}

\* target labels given to want / OperationContext::want
Labels == {"A", "B"}

\* source positions given to position / with_position
Positions == {"src/config.rs:42", "test.rs:1"}

\* details given to with_detail
Details == {"missing db config"}

\* key/value pairs recorded in a context
Pairs == {<<"step", "initialization">>, <<"key", "value">>}

\* values carried by Ok
OkValues == {42, 7}

(* ------------------------------ Option --------------------------------- *)

None == << >>

Some(x) == << x >>

(* ------------------- UvsReason (core/universal.rs) --------------------- *)

core_conf(msg) == [kind |-> "ConfigError", conf |-> "Core", msg |-> msg]

feature_conf(msg) == [kind |-> "ConfigError", conf |-> "Feature", msg |-> msg]

dynamic_conf(msg) == [kind |-> "ConfigError", conf |-> "Dynamic", msg |-> msg]

validation_error(msg) == [kind |-> "ValidationError", msg |-> msg]

business_error(msg) == [kind |-> "BusinessError", msg |-> msg]

not_found_error(msg) == [kind |-> "NotFoundError", msg |-> msg]

permission_error(msg) == [kind |-> "PermissionError", msg |-> msg]

data_error(msg, pos) == [kind |-> "DataError", msg |-> msg, pos |-> pos]

system_error(msg) == [kind |-> "SystemError", msg |-> msg]

network_error(msg) == [kind |-> "NetworkError", msg |-> msg]

resource_error(msg) == [kind |-> "ResourceError", msg |-> msg]

timeout_error(msg) == [kind |-> "TimeoutError", msg |-> msg]

external_error(msg) == [kind |-> "ExternalError", msg |-> msg]

logic_error(msg) == [kind |-> "LogicError", msg |-> msg]

\* every value a constructor of UvsReason builds from the messages of Msgs
UvsReasons ==
    UNION { { core_conf(m), feature_conf(m), dynamic_conf(m),
              validation_error(m), business_error(m), not_found_error(m),
              permission_error(m), data_error(m, None), data_error(m, Some(3)),
              system_error(m), network_error(m), resource_error(m),
              timeout_error(m), external_error(m), logic_error(m) } : m \in Msgs }

\* the error code table with Resource given the code of System
UvsReason_error_code_clashing(u) ==
    CASE u.kind = "ValidationError" -> 100
      [] u.kind = "BusinessError"   -> 101
      [] u.kind = "NotFoundError"   -> 102
      [] u.kind = "PermissionError" -> 103
      [] u.kind = "LogicError"      -> 104
      [] u.kind = "DataError"       -> 200
      [] u.kind = "SystemError"     -> 201
      [] u.kind = "NetworkError"    -> 202
      [] u.kind = "ResourceError"   -> 201
      [] u.kind = "TimeoutError"    -> 204
      [] u.kind = "ConfigError"     -> 300
      [] u.kind = "ExternalError"   -> 301

\* impl ErrorCode for UvsReason
UvsReason_error_code(u) ==
    CASE u.kind = "ValidationError" -> 100
      [] u.kind = "BusinessError"   -> 101
      [] u.kind = "NotFoundError"   -> 102
      [] u.kind = "PermissionError" -> 103
      [] u.kind = "LogicError"      -> 104
      [] u.kind = "DataError"       -> 200
      [] u.kind = "SystemError"     -> 201
      [] u.kind = "NetworkError"    -> 202
      [] u.kind = "ResourceError"   -> 203
      [] u.kind = "TimeoutError"    -> 204
      [] u.kind = "ConfigError"     -> 300
      [] u.kind = "ExternalError"   -> 301

\* is_retryable that also retries data errors
is_retryable_with_data(u) ==
    u.kind \in {"NetworkError", "TimeoutError", "ResourceError", "SystemError",
                "ExternalError", "DataError"}

\* UvsReason::is_retryable
is_retryable(u) ==
    CASE u.kind = "NetworkError"    -> TRUE
      [] u.kind = "TimeoutError"    -> TRUE
      [] u.kind = "ResourceError"   -> TRUE
      [] u.kind = "SystemError"     -> TRUE
      [] u.kind = "ExternalError"   -> TRUE
      [] u.kind = "ValidationError" -> FALSE
      [] u.kind = "BusinessError"   -> FALSE
      [] u.kind = "NotFoundError"   -> FALSE
      [] u.kind = "PermissionError" -> FALSE
      [] u.kind = "ConfigError"     -> FALSE
      [] u.kind = "DataError"       -> FALSE
      [] u.kind = "LogicError"      -> FALSE

\* is_high_severity that leaves the config categories out
is_high_severity_without_config(u) ==
    u.kind \in {"SystemError", "ResourceError"}

\* UvsReason::is_high_severity
is_high_severity(u) ==
    CASE u.kind = "SystemError"   -> TRUE
      [] u.kind = "ResourceError" -> TRUE
      [] u.kind = "ConfigError"   -> TRUE
      [] OTHER                    -> FALSE

(* ---------------- domain reasons of the repository -------------------- *)

\* the domain reason enums that have a variant wrapping a UvsReason
\* (R: From<UvsReason>); UvsReason itself is used as a domain reason
UvsWrapping ==
    {"UvsReason", "TestReason", "AnotherReason", "OrderReason", "StoreReason",
     "ParseReason", "UserReason"}

\* the unit variants of each domain reason enum
UnitTags(ty) ==
    CASE ty = "UvsReason"          -> {}
      [] ty = "TestReason"         -> {"TestError"}
      [] ty = "AnotherReason"      -> {"AnotherError"}
      [] ty = "TestDomainReason"   -> {"TestDomainReason"}
      [] ty = "OtherDomainReason"  -> {"OtherDomainReason"}
      [] ty = "OrderReason"        -> {"FormatError", "InsufficientFunds",
                                       "StorageFull", "UserNotFound"}
      [] ty = "StoreReason"        -> {"StorageFull"}
      [] ty = "ParseReason"        -> {"FormatError"}
      [] ty = "UserReason"         -> {"NotFound"}

DomainTypes == UvsWrapping \cup {"TestDomainReason", "OtherDomainReason"}

Unit(ty, tag) == [ty |-> ty, tag |-> tag]

\* From<UvsReason> for R: the variant of R that stores the UvsReason verbatim
R_from_UvsReason(R, uvs) == [ty |-> R, tag |-> "Uvs", uvs |-> uvs]

\* the universal reasons wrapped into domain reasons: one of every constructor
UvsSample == { u \in UvsReasons : u.msg = "boom" /\ (u.kind = "DataError" => u.pos = None) }

\* the values of domain reason type ty
DomainReasonsOf(ty) ==
    { Unit(ty, t) : t \in UnitTags(ty) }
    \cup (IF ty \in UvsWrapping THEN { R_from_UvsReason(ty, u) : u \in UvsSample } ELSE {})

\* impl ErrorCode for TestReason
TestReason_error_code(d) ==
    IF d.tag = "TestError" THEN 1001 ELSE UvsReason_error_code(d.uvs)

\* impl ErrorCode for AnotherReason
AnotherReason_error_code(d) ==
    IF d.tag = "AnotherError" THEN 2001 ELSE UvsReason_error_code(d.uvs)

\* impl ErrorCode for TestDomainReason
TestDomainReason_error_code(d) == 200

\* impl ErrorCode for OrderReason
OrderReason_error_code(d) ==
    IF d.tag = "Uvs" THEN UvsReason_error_code(d.uvs) ELSE 500

\* impl ErrorCode for StoreReason
StoreReason_error_code(d) ==
    IF d.tag = "Uvs" THEN UvsReason_error_code(d.uvs) ELSE 500

\* impl ErrorCode for ParseReason
ParseReason_error_code(d) == 500

\* the domain reason types that implement ErrorCode
ErrorCodeTypes ==
    {"UvsReason", "TestReason", "AnotherReason", "TestDomainReason",
     "OrderReason", "StoreReason", "ParseReason"}

\* d.error_code(), dispatched on the type of the domain reason
Domain_error_code(d) ==
    CASE d.ty = "UvsReason"        -> UvsReason_error_code(d.uvs)
      [] d.ty = "TestReason"       -> TestReason_error_code(d)
      [] d.ty = "AnotherReason"    -> AnotherReason_error_code(d)
      [] d.ty = "TestDomainReason" -> TestDomainReason_error_code(d)
      [] d.ty = "OrderReason"      -> OrderReason_error_code(d)
      [] d.ty = "StoreReason"      -> StoreReason_error_code(d)
      [] d.ty = "ParseReason"      -> ParseReason_error_code(d)

(* ------------------ StructReason (core/reason.rs) ---------------------- *)

Universal(uvs) == [arm |-> "Universal", uvs |-> uvs]

Domain(dom) == [arm |-> "Domain", dom |-> dom]

\* error_code of a StructReason that falls back to the trait's default for the
\* Domain arm
StructReason_error_code_defaulting(reason) ==
    IF reason.arm = "Universal"
    THEN UvsReason_error_code(reason.uvs)
    ELSE 500

\* impl ErrorCode for StructReason<T>
StructReason_error_code(reason) ==
    IF reason.arm = "Universal"
    THEN UvsReason_error_code(reason.uvs)
    ELSE Domain_error_code(reason.dom)

\* From<TestReason> for AnotherReason
AnotherReason_from_TestReason(d) ==
    IF d.tag = "TestError"
    THEN Unit("AnotherReason", "AnotherError")
    ELSE R_from_UvsReason("AnotherReason", d.uvs)

\* From<UserReason> for OrderReason
OrderReason_from_UserReason(d) ==
    IF d.tag = "NotFound"
    THEN R_from_UvsReason("OrderReason", business_error("logic fail"))
    ELSE R_from_UvsReason("OrderReason", d.uvs)

\* From<StoreReason> for OrderReason
OrderReason_from_StoreReason(d) ==
    IF d.tag = "StorageFull"
    THEN R_from_UvsReason("OrderReason", system_error("sys fail"))
    ELSE R_from_UvsReason("OrderReason", d.uvs)

\* the pairs <<R1, R2>> with an `impl From<R1> for R2` between domain enums
FromPairs ==
    { <<"TestReason", "AnotherReason">>, <<"UserReason", "OrderReason">>,
      <<"StoreReason", "OrderReason">> }

\* R2::from(d) for d of type R1, <<R1, R2>> in FromPairs
R2_from_R1(R2, d) ==
    CASE d.ty = "TestReason"  /\ R2 = "AnotherReason" -> AnotherReason_from_TestReason(d)
      [] d.ty = "UserReason"  /\ R2 = "OrderReason"   -> OrderReason_from_UserReason(d)
      [] d.ty = "StoreReason" /\ R2 = "OrderReason"   -> OrderReason_from_StoreReason(d)

\* From<TestDomainReason> for StructReason<OtherDomainReason>
StructReason_from_TestDomainReason(d) == Domain(Unit("OtherDomainReason", "OtherDomainReason"))

\* From<UvsReason> for StructReason<T>
StructReason_from_UvsReason(uvs) == Universal(uvs)

\* From<T> for StructReason<T>
StructReason_from_T(value) == Domain(value)

\* the target types R2 a StructError<R1> converts to (StructReason<R2>: From<R1>)
ConvTargets(R1) ==
    { R2 \in DomainTypes : <<R1, R2>> \in FromPairs }
    \cup (IF R1 = "TestDomainReason" THEN {"OtherDomainReason"} ELSE {})
    \cup (IF R1 = "UvsReason" THEN {"TestReason", "OrderReason"} ELSE {R1})

\* StructReason::<R2>::from(domain): the reason mapping the caller supplies
StructReason_from(R2, domain) ==
    CASE domain.ty = "TestDomainReason" /\ R2 = "OtherDomainReason" ->
             StructReason_from_TestDomainReason(domain)
      [] domain.ty = "UvsReason" /\ R2 # "UvsReason" ->
             StructReason_from_UvsReason(domain.uvs)
      [] domain.ty = R2 /\ R2 # "UvsReason" ->
             StructReason_from_T(domain)
      [] <<domain.ty, R2>> \in FromPairs ->
             StructReason_from_T(R2_from_R1(R2, domain))

\* convert_reason with the Universal arm re-typed into the target's domain reason
convert_reason_downgrading(R2, other) ==
    IF other.arm = "Universal"
    THEN Domain(R_from_UvsReason(R2, other.uvs))
    ELSE StructReason_from(R2, other.dom)

\* convert_reason::<R1, R2>(other)
convert_reason(R2, other) ==
    IF other.arm = "Universal"
    THEN Universal(other.uvs)
    ELSE StructReason_from(R2, other.dom)

(* ------------------- StructError (core/error.rs) ----------------------- *)

\* StructError::new
StructError_new(R, reason, detail, position, target, context) ==
    [cls |-> "struct", R |-> R, reason |-> reason, detail |-> detail,
     position |-> position, target |-> target, context |-> context]

\* StructError::default_other: no detail, no position, no target, empty context
default_other(R, reason) == StructError_new(R, reason, None, None, None, << >>)

\* StructError::domain
domain(R, reason) == default_other(R, Domain(reason))

\* StructError::universal
universal(R, reason) == default_other(R, Universal(reason))

\* impl From<T> for StructError<T>
StructError_from_T(reason) == domain(reason.ty, reason)

\* impl From<UvsReason> for StructError<R>
StructError_from_UvsReason(R, reason) == universal(R, reason)

\* impl ErrorCode for StructError<T>
StructError_error_code(e) == StructReason_error_code(e.reason)

\* StructError::with_position
with_position(e, position) == [e EXCEPT !.position = Some(position)]

\* StructError::with_context: the ErrContext given becomes the context
with_context(e, context) == [e EXCEPT !.context = context]

\* with_detail that keeps a detail already set
with_detail_first_wins(e, detail) ==
    IF e.detail = None THEN [e EXCEPT !.detail = Some(detail)] ELSE e

\* StructError::with_detail
with_detail(e, detail) == [e EXCEPT !.detail = Some(detail)]

\* want that also pushes an entry naming the target when the context is empty
want_pushing_frame(e, desc) ==
    IF e.context = << >>
    THEN [e EXCEPT !.target = Some(desc), !.context = << <<"target", desc>> >>]
    ELSE [e EXCEPT !.target = Some(desc)]

\* want that keeps a target already set
want_first_wins(e, desc) ==
    IF e.target = None THEN [e EXCEPT !.target = Some(desc)] ELSE e

\* ErrorWith::want for StructError
want(e, desc) == [e EXCEPT !.target = Some(desc)]

\* ErrorWith::position for StructError
position(e, pos) == [e EXCEPT !.position = Some(pos)]

\* convert_error with detail and position passed in each other's place
convert_error_swapping(R2, other) ==
    StructError_new(R2, convert_reason(R2, other.reason), other.position,
                    other.detail, other.target, other.context)

\* convert_error::<R1, R2>(other)
convert_error(R2, other) ==
    StructError_new(R2, convert_reason(R2, other.reason), other.detail,
                    other.position, other.target, other.context)

\* ConvStructError::conv
conv(R2, e) == convert_error(R2, e)

\* StructError::<R>::from_uvs(e, reason): the arguments of StructError::new in
\* the order the call gives them, e.imp.position in the place of detail and
\* e.imp.detail in the place of position
from_uvs(R, e, reason) ==
    StructError_new(R, Universal(reason), e.position, e.detail, e.target, e.context)

\* stc_err_from::<R1, R2>(error) of core/stc_impl.rs: the re-typed reason is
\* all that is handed to StructError::new, which is given nothing else of
\* `error`
stc_err_from(R2, error) ==
    LET reason == IF error.reason.arm = "Universal"
                  THEN Universal(error.reason.uvs)
                  ELSE Domain(IF error.reason.dom.ty = R2
                              THEN error.reason.dom
                              ELSE R2_from_R1(R2, error.reason.dom))
    IN  StructError_new(R2, reason, None, None, None, << >>)

(* --------------- OperationContext (core/context.rs) -------------------- *)

\* OperationContext::new
OperationContext_new ==
    [target |-> None, context |-> << >>, result |-> "Fail", exit_log |-> FALSE]

\* OperationContext::want
OperationContext_want(target) ==
    [target |-> Some(target), context |-> << >>, result |-> "Fail", exit_log |-> FALSE]

\* record that replaces the value of a key already recorded
record_overwriting(ctx, key, val) ==
    IF \E i \in 1..Len(ctx.context) : ctx.context[i][1] = key
    THEN [ctx EXCEPT !.context =
              [i \in 1..Len(@) |-> IF @[i][1] = key THEN <<key, val>> ELSE @[i]]]
    ELSE [ctx EXCEPT !.context = Append(@, <<key, val>>)]

\* ContextRecord::record
record(ctx, key, val) == [ctx EXCEPT !.context = Append(@, <<key, val>>)]

\* OperationContext::with_auto_log
with_auto_log(c) == [c EXCEPT !.exit_log = TRUE]

\* OperationContext::with_want
with_want(c, target) == [c EXCEPT !.target = Some(target)]

\* OperationContext::mark_suc
mark_suc(c) == [c EXCEPT !.result = "Suc"]

\* OperationContext::mark_cancel
mark_cancel(c) == [c EXCEPT !.result = "Cancel"]

\* From<(&str, &str)> for OperationContext
OperationContext_from_pair(key, val) ==
    [target |-> None, context |-> << <<key, val>> >>, result |-> "Fail",
     exit_log |-> FALSE]

\* #[derive(Clone)] on OperationContext, which From<&OperationContext> calls:
\* every field is copied, exit_log included
OperationContext_clone(c) ==
    [target |-> c.target, context |-> c.context, result |-> c.result,
     exit_log |-> c.exit_log]

\* OperationContext::format_context
format_context(c) ==
    LET target == IF c.target = None THEN "" ELSE c.target[1]
        items(n) == [i \in 1..n |-> "\t" \o c.context[i][1] \o " : " \o c.context[i][2] \o "\n"]
        Join[i \in 0..Len(c.context)] ==
            IF i = 0 THEN "" ELSE Join[i - 1] \o items(Len(c.context))[i]
        body == "call context:\n" \o Join[Len(c.context)]
    IN  IF c.context = << >> THEN target
        ELSE IF target = "" THEN body
        ELSE target \o ": \n" \o body

\* Drop for OperationContext that logs whether or not exit_log is set
OperationContext_drop_always(c, lg) ==
    Append(lg, [level |-> "error", prefix |-> "fail!", text |-> format_context(c)])

\* impl Drop for OperationContext, with logging compiled in: the log after the
\* context is dropped
OperationContext_drop(c, lg) ==
    IF ~c.exit_log THEN lg
    ELSE CASE c.result = "Suc"
                -> Append(lg, [level |-> "info", prefix |-> "suc!", text |-> format_context(c)])
           [] c.result = "Fail"
                -> Append(lg, [level |-> "error", prefix |-> "fail!", text |-> format_context(c)])
           [] c.result = "Cancel"
                -> Append(lg, [level |-> "warn", prefix |-> "cancel!", text |-> format_context(c)])

\* OperationContext::scope
OperationContext_scope == [mark_success |-> FALSE]

\* OperationContext::scoped_success
scoped_success == [mark_success |-> TRUE]

\* OperationScope::mark_success
mark_success(g) == [g EXCEPT !.mark_success = TRUE]

\* mark_failure that leaves the guard as it is
mark_failure_keeping(g) == g

\* OperationScope::mark_failure
mark_failure(g) == [g EXCEPT !.mark_success = FALSE]

\* OperationScope::cancel: the guard and the context it borrows afterwards
cancel(g, c) ==
    [guard |-> [g EXCEPT !.mark_success = FALSE], ctx |-> mark_cancel(c)]

\* Drop for OperationScope that writes nothing
OperationScope_drop_forgetting(g, c) == c

\* impl Drop for OperationScope: the borrowed context after the guard exits
OperationScope_drop(g, c) == IF g.mark_success THEN mark_suc(c) ELSE c

\* the contexts attached to errors: with and without a target, with and
\* without recorded pairs
Contexts ==
    { OperationContext_want("A"),
      record(OperationContext_new, "user_id", "12345"),
      record(OperationContext_want("B"), "order", "txt"),
      record(record(OperationContext_new, "step", "initialization"),
             "resource", "database") }

\* ContextAdd<(S1, S2)> for StructError
add_context_pair(e, key, val) == [e EXCEPT !.context = Append(@, <<key, val>>)]

\* add_context that assigns the target of the context even when it has none
add_context_clearing(e, ctx) ==
    [e EXCEPT !.target = ctx.target, !.context = @ \o ctx.context]

\* ContextAdd<&WithContext> for StructError
add_context(e, ctx) ==
    LET targeted == IF ctx.target # None
                    THEN [e EXCEPT !.target = ctx.target]
                    ELSE e
    IN  [targeted EXCEPT !.context = @ \o ctx.context]

\* with(&ctx) that moves the target and the entries out of the context it is
\* given instead of copying them
StructError_with_ref_moving(e, c, lg) ==
    [e   |-> add_context(e, c),
     ctx |-> [c EXCEPT !.target = None, !.context = << >>],
     log |-> lg]

\* ErrorWith::with for StructError with C = &OperationContext: ctx.into() is
\* a clone of the context, its target and items are added to the error, and
\* the clone is dropped when with returns; the context given is only read
StructError_with_ref(e, c, lg) ==
    LET into == OperationContext_clone(c)
    IN  [e   |-> add_context(e, into),
         ctx |-> c,
         log |-> OperationContext_drop(into, lg)]

\* ErrorWith::with for StructError
with(e, ctx) == add_context(e, ctx)

(* --------------------------- Display ----------------------------------- *)

\* impl Display for ErrorPayload: the Debug form of the string, i.e. the
\* string in double quotes (it is applied here only to messages without a
\* character Debug escapes)
ErrorPayload_fmt(msg) == "\"" \o msg \o "\""

\* #[error(..)] of ConfErrReason
ConfErrReason_fmt(u) ==
    CASE u.conf = "Core"    -> "core config > " \o u.msg
      [] u.conf = "Feature" -> "feature config error > " \o u.msg
      [] u.conf = "Dynamic" -> "dynamic config error > " \o u.msg

\* #[error(..)] of UvsReason
UvsReason_fmt(u) ==
    CASE u.kind = "ValidationError" -> "validation error << " \o ErrorPayload_fmt(u.msg)
      [] u.kind = "BusinessError"   -> "business logic error << " \o ErrorPayload_fmt(u.msg)
      [] u.kind = "NotFoundError"   -> "not found error << " \o ErrorPayload_fmt(u.msg)
      [] u.kind = "PermissionError" -> "permission error << " \o ErrorPayload_fmt(u.msg)
      [] u.kind = "DataError"       -> "data error << " \o ErrorPayload_fmt(u.msg)
      [] u.kind = "SystemError"     -> "system error << " \o ErrorPayload_fmt(u.msg)
      [] u.kind = "NetworkError"    -> "network error << " \o ErrorPayload_fmt(u.msg)
      [] u.kind = "ResourceError"   -> "resource error << " \o ErrorPayload_fmt(u.msg)
      [] u.kind = "TimeoutError"    -> "timeout error << " \o ErrorPayload_fmt(u.msg)
      [] u.kind = "ConfigError"     -> "configuration error << " \o ConfErrReason_fmt(u)
      [] u.kind = "ExternalError"   -> "external service error << " \o ErrorPayload_fmt(u.msg)
      [] u.kind = "LogicError"      -> "BUG :logic error << " \o ErrorPayload_fmt(u.msg)

\* impl Display for OrderReason; the texts of the unit variants are written
\* here by their code points
OrderReason_fmt(d) ==
    CASE d.tag = "FormatError"       -> "\\u8ba2\\u5355\\u683c\\u5f0f\\u9519\\u8bef"
      [] d.tag = "InsufficientFunds" -> "\\u8d26\\u6237\\u4f59\\u989d\\u4e0d\\u8db3"
      [] d.tag = "StorageFull"
             -> "\\u8ba2\\u5355\\u5b58\\u50a8\\u7a7a\\u95f4\\u4e0d\\u8db3"
      [] d.tag = "UserNotFound"      -> "\\u7528\\u6237\\u4e0d\\u5b58\\u5728"
      [] d.tag = "Uvs"               -> UvsReason_fmt(d.uvs)

\* Display of a domain reason, dispatched on its type: the #[error(..)]
\* attributes and the Display impls of the reason types
Domain_fmt(d) ==
    CASE d.tag = "Uvs" /\ d.ty # "OrderReason" -> UvsReason_fmt(d.uvs)
      [] d.ty = "OrderReason"                  -> OrderReason_fmt(d)
      [] d.tag = "TestError"                   -> "test error"
      [] d.tag = "AnotherError"                -> "another error"
      [] d.tag = "TestDomainReason"            -> "TestDomainReason"
      [] d.ty = "StoreReason" /\ d.tag = "StorageFull" -> "storeage full"
      [] d.ty = "ParseReason" /\ d.tag = "FormatError" -> "format error"

\* #[error("{0}")] on both arms of StructReason
StructReason_fmt(reason) ==
    IF reason.arm = "Universal"
    THEN UvsReason_fmt(reason.uvs)
    ELSE Domain_fmt(reason.dom)

\* the loop of Display for StructError over context.items: what it has
\* written after the first n items
fmt_items(items, n) ==
    LET Written[i \in 0..n] ==
            IF i = 0 THEN ""
            ELSE Written[i - 1] \o "\n     " \o ToString(i) \o ". "
                     \o items[i][1] \o ":" \o items[i][2]
    IN  Written[n]

\* Display for StructError that writes the detail before the target
StructError_fmt_detail_first(e) ==
    "[" \o ToString(StructError_error_code(e)) \o "] " \o StructReason_fmt(e.reason)
    \o (IF e.position # None THEN "\n  -> At: " \o e.position[1] ELSE "")
    \o (IF e.detail # None THEN "\n  -> Details: " \o e.detail[1] ELSE "")
    \o (IF e.target # None THEN "\n  -> Want: " \o e.target[1] ELSE "")
    \o (IF e.context # << >>
        THEN "\n  -> Context stack:" \o fmt_items(e.context, Len(e.context))
        ELSE "")

\* impl Display for StructError: the text the write! calls produce, in order
StructError_fmt(e) ==
    "[" \o ToString(StructError_error_code(e)) \o "] " \o StructReason_fmt(e.reason)
    \o (IF e.position # None THEN "\n  -> At: " \o e.position[1] ELSE "")
    \o (IF e.target # None THEN "\n  -> Want: " \o e.target[1] ELSE "")
    \o (IF e.detail # None THEN "\n  -> Details: " \o e.detail[1] ELSE "")
    \o (IF e.context # << >>
        THEN "\n  -> Context stack:" \o fmt_items(e.context, Len(e.context))
        ELSE "")

(* ----------------------- Result and its lifts -------------------------- *)

Ok(ety, v) == [tag |-> "Ok", ety |-> ety, val |-> v]

Err(ety, e) == [tag |-> "Err", ety |-> ety, err |-> e]

\* a foreign error: any E: Display that is not a StructError (&str, io::Error)
Foreign(msg) == [cls |-> "foreign", msg |-> msg]

\* e.to_string(): the text the error displays, of a foreign error or of a
\* StructError (which is Display as well)
to_string(e) == IF e.cls = "struct" THEN StructError_fmt(e) ELSE e.msg

\* the strings a closure FnOnce(String) -> R is defined on here
Messages(result) ==
    Msgs \cup (IF result.tag = "Err" THEN {to_string(result.err)} ELSE {})

\* owe that wraps the reason and forgets the foreign message
owe_dropping_detail(result, reason) ==
    IF result.tag = "Ok"
    THEN Ok(reason.ty, result.val)
    ELSE Err(reason.ty, StructError_from_T(reason))

\* ErrorOwe::owe
owe(result, reason) ==
    IF result.tag = "Ok"
    THEN Ok(reason.ty, result.val)
    ELSE LET msg == to_string(result.err)
         IN  Err(reason.ty, with_detail(StructError_from_T(reason), msg))

\* map_err_with that lifts the UvsReason the closure wrapped into the Universal
\* arm
map_err_with_universal(result, f, R) ==
    IF result.tag = "Ok"
    THEN Ok(R, result.val)
    ELSE LET msg == to_string(result.err)
         IN  Err(R, with_detail(StructError_from_UvsReason(R, f[msg].uvs), msg))

\* map_err_with: the closure f, a function from the message to the reason of
\* type R
map_err_with(result, f, R) ==
    IF result.tag = "Ok"
    THEN Ok(R, result.val)
    ELSE LET msg    == to_string(result.err)
             reason == f[msg]
         IN  Err(R, with_detail(StructError_from_T(reason), msg))

\* UvsDataFrom<String>::from_data
from_data(R, info, pos) == R_from_UvsReason(R, data_error(info, pos))

\* from_net mapping to the business category
from_net_as_biz(R, info) == R_from_UvsReason(R, business_error(info))

\* UvsNetFrom<String>::from_net
from_net(R, info) == R_from_UvsReason(R, network_error(info))

\* UvsTimeoutFrom<String>::from_timeout
from_timeout(R, info) == R_from_UvsReason(R, timeout_error(info))

\* UvsSysFrom<String>::from_sys
from_sys(R, info) == R_from_UvsReason(R, system_error(info))

\* ErrorOwe::owe_logic
owe_logic(result, R) ==
    map_err_with(result, [msg \in Messages(result) |-> R_from_UvsReason(R, logic_error(msg))], R)

\* ErrorOwe::owe_biz
owe_biz(result, R) ==
    map_err_with(result, [msg \in Messages(result) |-> R_from_UvsReason(R, business_error(msg))], R)

\* ErrorOwe::owe_validation
owe_validation(result, R) ==
    map_err_with(result, [msg \in Messages(result) |-> R_from_UvsReason(R, validation_error(msg))], R)

\* ErrorOwe::owe_data
owe_data(result, R) ==
    map_err_with(result, [msg \in Messages(result) |-> from_data(R, msg, None)], R)

\* ErrorOwe::owe_conf
owe_conf(result, R) ==
    map_err_with(result, [msg \in Messages(result) |-> R_from_UvsReason(R, core_conf(msg))], R)

\* ErrorOwe::owe_res
owe_res(result, R) ==
    map_err_with(result, [msg \in Messages(result) |-> R_from_UvsReason(R, resource_error(msg))], R)

\* ErrorOwe::owe_net
owe_net(result, R) ==
    map_err_with(result, [msg \in Messages(result) |-> from_net(R, msg)], R)

\* ErrorOwe::owe_timeout
owe_timeout(result, R) ==
    map_err_with(result, [msg \in Messages(result) |-> from_timeout(R, msg)], R)

\* ErrorOwe::owe_sys
owe_sys(result, R) ==
    map_err_with(result, [msg \in Messages(result) |-> from_sys(R, msg)], R)

\* err_conv that re-types the error without applying the reason mapping
err_conv_unmapped(result, R2) ==
    IF result.tag = "Ok"
    THEN Ok(R2, result.val)
    ELSE Err(R2, [result.err EXCEPT !.R = R2])

\* ErrorConv::err_conv
err_conv(result, R2) ==
    IF result.tag = "Ok"
    THEN Ok(R2, result.val)
    ELSE Err(R2, convert_error(R2, result.err))

\* UseTarget::want for Result
Result_want(result, desc) ==
    IF result.tag = "Ok" THEN result ELSE Err(result.ety, want(result.err, desc))

\* ErrorPosition::position for Result
Result_position(result, desc) ==
    IF result.tag = "Ok" THEN result ELSE Err(result.ety, position(result.err, desc))

\* with for Result that attaches the context and answers Ok
Result_with_swallowing(result, ctx) ==
    IF result.tag = "Ok" THEN result ELSE Ok(result.ety, 0)

\* ErrorWith::with for Result, the context given as an OperationContext
Result_with(result, ctx) ==
    IF result.tag = "Ok" THEN result ELSE Err(result.ety, add_context(result.err, ctx))

\* ErrorWith::with for Result, the context given as a key/value pair
Result_with_pair(result, key, val) ==
    IF result.tag = "Ok"
    THEN result
    ELSE Err(result.ety, add_context_pair(result.err, key, val))

(* ------------------------- the state machine --------------------------- *)

\* the reason types R the repository adapts foreign errors into with owe and
\* owe_<category>: StructError<UvsReason> (tests/test_error_owe.rs),
\* StoreError and OrderError (examples/order_case.rs)
OweTargets == {"UvsReason", "StoreReason", "OrderReason"}

\* the reason types of the errors built with StructError::universal at the start
UniversalHolders == {"TestReason", "StoreReason", "TestDomainReason"}

\* the static error types a Result can have: a foreign E or StructError<R>
ErrorTypes == {"foreign"} \cup DomainTypes

IsStruct(result) == result.ety # "foreign"

\* the error a Result carries after `n` more context items still fits MaxItems
Fits(result, n) ==
    result.tag = "Err" => Len(result.err.context) + n <= MaxItems

\* errors built with StructError::new with every field given, as in
\* test_struct_error_serialization
Populated ==
    { StructError_new(r[1], r[2], Some("Detailed error description"),
                      Some("file.rs:10:5"), Some("target_resource"),
                      << <<"key1", "value1">> >>) :
          r \in { <<"TestReason", Domain(Unit("TestReason", "TestError"))>>,
                  <<"TestReason", Universal(network_error("boom"))>>,
                  <<"StoreReason", Domain(Unit("StoreReason", "StorageFull"))>>,
                  <<"TestDomainReason",
                    Domain(Unit("TestDomainReason", "TestDomainReason"))>> } }

\* the context, its guard, the log and the liveness of the context, together
Snapshot == [ctx |-> opctx, scope |-> scope, log |-> log, alive |-> alive]

\* a Result as a fallible operation returns it: Ok(v), Err of a foreign error,
\* or Err of a StructError from StructError::from / ::universal / ::new
Init ==
    /\ res \in { Ok(t, v) : t \in ErrorTypes, v \in OkValues }
           \cup { Err("foreign", Foreign(m)) : m \in Msgs }
           \cup { Err(R, StructError_from_UvsReason(R, u)) :
                      R \in UniversalHolders, u \in UvsReasons }
           \cup UNION { { Err(R, StructError_from_T(d)) : d \in DomainReasonsOf(R) } :
                            R \in DomainTypes }
           \cup { Err(e.R, e) : e \in Populated }
    /\ input = res
    /\ op = "init"
    /\ arg = None
    /\ steps = 0
    /\ origin = IF res.tag = "Ok" THEN [tag |-> "Ok", val |-> res.val] ELSE [tag |-> "Err"]
    /\ opctx = OperationContext_new
    /\ scope = None
    /\ log = << >>
    /\ alive = TRUE
    /\ before = Snapshot
    /\ call = None
    /\ marks = << >>

\* one operation `name` with argument `a` turns the Result into `out`
Apply(name, a, out) ==
    /\ steps < MaxSteps
    /\ res' = out
    /\ input' = res
    /\ op' = name
    /\ arg' = a
    /\ steps' = steps + 1
    /\ UNCHANGED <<origin, opctx, scope, log, alive, before, call, marks>>

Owe ==
    /\ ~IsStruct(res)
    /\ \E R \in OweTargets : \E reason \in DomainReasonsOf(R) :
           Apply("owe", reason, owe(res, reason))

OweLogic ==
    /\ ~IsStruct(res)
    /\ \E R \in OweTargets : Apply("owe_logic", R, owe_logic(res, R))

OweBiz ==
    /\ ~IsStruct(res)
    /\ \E R \in OweTargets : Apply("owe_biz", R, owe_biz(res, R))

OweValidation ==
    /\ ~IsStruct(res)
    /\ \E R \in OweTargets : Apply("owe_validation", R, owe_validation(res, R))

OweData ==
    /\ ~IsStruct(res)
    /\ \E R \in OweTargets : Apply("owe_data", R, owe_data(res, R))

OweConf ==
    /\ ~IsStruct(res)
    /\ \E R \in OweTargets : Apply("owe_conf", R, owe_conf(res, R))

OweRes ==
    /\ ~IsStruct(res)
    /\ \E R \in OweTargets : Apply("owe_res", R, owe_res(res, R))

OweNet ==
    /\ ~IsStruct(res)
    /\ \E R \in OweTargets : Apply("owe_net", R, owe_net(res, R))

OweTimeout ==
    /\ ~IsStruct(res)
    /\ \E R \in OweTargets : Apply("owe_timeout", R, owe_timeout(res, R))

OweSys ==
    /\ ~IsStruct(res)
    /\ \E R \in OweTargets : Apply("owe_sys", R, owe_sys(res, R))

ErrConv ==
    /\ IsStruct(res)
    /\ \E R2 \in ConvTargets(res.ety) : Apply("err_conv", R2, err_conv(res, R2))

Conv ==
    /\ IsStruct(res)
    /\ res.tag = "Err"
    /\ \E R2 \in ConvTargets(res.ety) :
           Apply("conv", R2, Err(R2, conv(R2, res.err)))

Want ==
    /\ IsStruct(res)
    /\ \E desc \in Labels : Apply("want", desc, Result_want(res, desc))

Position ==
    /\ IsStruct(res)
    /\ \E desc \in Positions : Apply("position", desc, Result_position(res, desc))

With ==
    /\ IsStruct(res)
    /\ \E ctx \in Contexts :
           /\ Fits(res, Len(ctx.context))
           /\ Apply("with", ctx, Result_with(res, ctx))

WithPair ==
    /\ IsStruct(res)
    /\ Fits(res, 1)
    /\ \E kv \in Pairs : Apply("with_pair", kv, Result_with_pair(res, kv[1], kv[2]))

WithDetail ==
    /\ IsStruct(res)
    /\ res.tag = "Err"
    /\ \E detail \in Details :
           Apply("with_detail", detail, Err(res.ety, with_detail(res.err, detail)))

WithPosition ==
    /\ IsStruct(res)
    /\ res.tag = "Err"
    /\ \E pos \in Positions :
           Apply("with_position", pos, Err(res.ety, with_position(res.err, pos)))

\* with_context with the item list of one of the contexts, as in
\* test_error_conversion
WithContext ==
    /\ IsStruct(res)
    /\ res.tag = "Err"
    /\ \E ctx \in Contexts :
           Apply("with_context", ctx.context,
                 Err(res.ety, with_context(res.err, ctx.context)))

\* StructError::<R>::err_from_uvs(e, reason) on the error of the Result
FromUvs ==
    /\ IsStruct(res)
    /\ res.tag = "Err"
    /\ \E R \in {res.ety, "OrderReason"}, u \in {system_error("boom"), business_error("boom")} :
           Apply("from_uvs", [R |-> R, reason |-> u], Err(R, from_uvs(R, res.err, u)))

\* stc_err_from(e) on the error of the Result, to a type R2: From<R1>
StcErrFrom ==
    /\ IsStruct(res)
    /\ res.tag = "Err"
    /\ \E R2 \in {res.ety} \cup { T \in DomainTypes : <<res.ety, T>> \in FromPairs } :
           Apply("stc_err_from", R2, Err(R2, stc_err_from(R2, res.err)))

\* the query error_code() on the error of the Result; arg is the code returned
ErrorCode ==
    /\ res.tag = "Err"
    /\ res.ety \in ErrorCodeTypes
    /\ Apply("error_code", StructError_error_code(res.err), res)

\* the query is_retryable() on the universal reason of the error; arg is the
\* answer
IsRetryable ==
    /\ res.tag = "Err"
    /\ IsStruct(res)
    /\ res.err.reason.arm = "Universal"
    /\ Apply("is_retryable", is_retryable(res.err.reason.uvs), res)

\* the query is_high_severity() on the universal reason of the error; arg is
\* the answer
IsHighSeverity ==
    /\ res.tag = "Err"
    /\ IsStruct(res)
    /\ res.err.reason.arm = "Universal"
    /\ Apply("is_high_severity", is_high_severity(res.err.reason.uvs), res)

\* format!("{}", err) on the error of the Result; arg is the text
Display ==
    /\ res.tag = "Err"
    /\ res.ety \in ErrorCodeTypes
    /\ Apply("display", StructError_fmt(res.err), res)

Next ==
    \/ Owe
    \/ OweLogic
    \/ OweBiz
    \/ OweValidation
    \/ OweData
    \/ OweConf
    \/ OweRes
    \/ OweNet
    \/ OweTimeout
    \/ OweSys
    \/ ErrConv
    \/ Conv
    \/ Want
    \/ Position
    \/ With
    \/ WithPair
    \/ WithDetail
    \/ WithPosition
    \/ WithContext
    \/ ErrorCode
    \/ Display
    \/ IsRetryable
    \/ IsHighSeverity
    \/ FromUvs
    \/ StcErrFrom

Spec == Init /\ [][Next]_vars

(* ------------------- the life of an OperationContext ------------------- *)

\* the error the context is attached to: a fresh domain error, or one that
\* already has a target and a context entry
CtxErrors ==
    { StructError_from_T(Unit("TestDomainReason", "TestDomainReason")),
      StructError_new("TestDomainReason",
                      Domain(Unit("TestDomainReason", "TestDomainReason")),
                      None, None, Some("target_resource"),
                      << <<"key1", "value1">> >>) }

\* the context as its constructors give it, with or without with_auto_log
CtxInit ==
    /\ res \in { Err(e.R, e) : e \in CtxErrors }
    /\ input = res
    /\ op = "init"
    /\ arg = None
    /\ steps = 0
    /\ origin = [tag |-> "Err"]
    /\ \E c \in {OperationContext_new, OperationContext_want("A"),
                  OperationContext_from_pair("existing_key", "existing_value")} :
           opctx \in {c, with_auto_log(c)}
    /\ scope = None
    /\ log = << >>
    /\ alive = TRUE
    /\ before = Snapshot
    /\ call = None
    /\ marks = << >>

\* one operation `name` with argument `a` in the life of the context
CtxApply(name, a) ==
    /\ steps < MaxOps
    /\ input' = res
    /\ before' = Snapshot
    /\ op' = name
    /\ arg' = a
    /\ steps' = steps + 1
    /\ marks' = CASE name \in {"scope", "scoped_success"} -> <<name>>
                  [] name \in {"mark_success", "mark_failure", "cancel"} -> Append(marks, name)
                  [] OTHER -> marks
    /\ UNCHANGED <<origin, call>>

\* opctx.record(key, val), directly or through the guard
Record ==
    /\ alive
    /\ Len(opctx.context) < MaxItems
    /\ \E kv \in Pairs :
           /\ opctx' = record(opctx, kv[1], kv[2])
           /\ CtxApply("record", kv)
    /\ UNCHANGED <<res, scope, log, alive>>

\* opctx.with_want(target)
WithWant ==
    /\ alive
    /\ \E target \in Labels :
           /\ opctx' = with_want(opctx, target)
           /\ CtxApply("with_want", target)
    /\ UNCHANGED <<res, scope, log, alive>>

\* opctx.mark_suc()
MarkSuc ==
    /\ alive
    /\ opctx' = mark_suc(opctx)
    /\ CtxApply("mark_suc", None)
    /\ UNCHANGED <<res, scope, log, alive>>

\* opctx.mark_cancel()
MarkCancel ==
    /\ alive
    /\ opctx' = mark_cancel(opctx)
    /\ CtxApply("mark_cancel", None)
    /\ UNCHANGED <<res, scope, log, alive>>

\* let scope = opctx.scope()
Scope ==
    /\ alive
    /\ scope = None
    /\ scope' = Some(OperationContext_scope)
    /\ CtxApply("scope", None)
    /\ UNCHANGED <<res, opctx, log, alive>>

\* let scope = opctx.scoped_success()
ScopedSuccess ==
    /\ alive
    /\ scope = None
    /\ scope' = Some(scoped_success)
    /\ CtxApply("scoped_success", None)
    /\ UNCHANGED <<res, opctx, log, alive>>

\* scope.mark_success()
MarkSuccess ==
    /\ scope # None
    /\ scope' = Some(mark_success(scope[1]))
    /\ CtxApply("mark_success", None)
    /\ UNCHANGED <<res, opctx, log, alive>>

\* scope.mark_failure()
MarkFailure ==
    /\ scope # None
    /\ scope' = Some(mark_failure(scope[1]))
    /\ CtxApply("mark_failure", None)
    /\ UNCHANGED <<res, opctx, log, alive>>

\* scope.cancel()
Cancel ==
    /\ scope # None
    /\ scope' = Some(cancel(scope[1], opctx).guard)
    /\ opctx' = cancel(scope[1], opctx).ctx
    /\ CtxApply("cancel", None)
    /\ UNCHANGED <<res, log, alive>>

\* the guard goes out of scope
ScopeExit ==
    /\ scope # None
    /\ opctx' = OperationScope_drop(scope[1], opctx)
    /\ scope' = None
    /\ CtxApply("scope_exit", None)
    /\ UNCHANGED <<res, log, alive>>

\* err.with(&opctx): ErrorWith::with for StructError with C = &OperationContext
WithRef ==
    /\ alive
    /\ Fits(res, Len(opctx.context))
    /\ LET out == StructError_with_ref(res.err, opctx, log)
       IN  /\ res' = Err(res.ety, out.e)
           /\ opctx' = out.ctx
           /\ log' = out.log
    /\ CtxApply("with_ref", None)
    /\ UNCHANGED <<scope, alive>>

\* err.with(opctx): the context is moved into with and dropped at its end
WithMove ==
    /\ alive
    /\ scope = None
    /\ Fits(res, Len(opctx.context))
    /\ res' = Err(res.ety, with(res.err, opctx))
    /\ log' = OperationContext_drop(opctx, log)
    /\ alive' = FALSE
    /\ CtxApply("with_move", None)
    /\ UNCHANGED <<opctx, scope>>

\* let copy = opctx.clone(), and copy goes out of scope
CloneDrop ==
    /\ alive
    /\ log' = OperationContext_drop(OperationContext_clone(opctx), log)
    /\ CtxApply("clone", None)
    /\ UNCHANGED <<res, opctx, scope, alive>>

\* opctx goes out of scope; a guard borrowing it has exited before
Exit ==
    /\ alive
    /\ scope = None
    /\ log' = OperationContext_drop(opctx, log)
    /\ alive' = FALSE
    /\ CtxApply("exit", None)
    /\ UNCHANGED <<res, opctx, scope>>

\* err.want(label) on the error the context was attached to
ErrWant ==
    /\ \E desc \in Labels :
           /\ res' = Result_want(res, desc)
           /\ CtxApply("want", desc)
    /\ UNCHANGED <<opctx, scope, log, alive>>

\* err.with((key, val)) on the error the context was attached to
ErrWithPair ==
    /\ Fits(res, 1)
    /\ \E kv \in Pairs :
           /\ res' = Result_with_pair(res, kv[1], kv[2])
           /\ CtxApply("with_pair", kv)
    /\ UNCHANGED <<opctx, scope, log, alive>>

CtxNext ==
    \/ Record
    \/ WithWant
    \/ MarkSuc
    \/ MarkCancel
    \/ Scope
    \/ ScopedSuccess
    \/ MarkSuccess
    \/ MarkFailure
    \/ Cancel
    \/ ScopeExit
    \/ WithRef
    \/ WithMove
    \/ CloneDrop
    \/ Exit
    \/ ErrWant
    \/ ErrWithPair

CtxSpec == CtxInit /\ [][CtxNext]_vars

(* --------------------- the order placement example --------------------- *)

\* OrderService::parse_order; the detail text is written by its code points
parse_order(txt, amount) ==
    IF txt = ""
    THEN Err("ParseReason",
             with_detail(StructError_from_T(Unit("ParseReason", "FormatError")),
                         "\\u8ba2\\u5355\\u6587\\u672c\\u4e0d\\u80fd\\u4e3a\\u7a7a"))
    ELSE Ok("ParseReason", [user_id |-> 123, amount |-> amount])

\* get_balance that knows every user
get_balance_any_user(user_id) == Ok("UserReason", 500)

\* OrderService::get_balance
get_balance(user_id) ==
    IF user_id # 123
    THEN Err("UserReason",
             with_detail(StructError_from_T(Unit("UserReason", "NotFound")),
                         "uid:" \o ToString(user_id)))
    ELSE Ok("UserReason", 500)

\* OrderService::validate_funds; amounts are whole numbers here, which {}
\* formats without a fraction; the Ok value is ()
validate_funds(user_id, amount) ==
    LET balance == err_conv(get_balance(user_id), "OrderReason")
    IN  IF balance.tag = "Err"
        THEN balance
        ELSE IF balance.val < amount
             THEN Err("OrderReason",
                      with_detail(StructError_from_T(Unit("OrderReason", "InsufficientFunds")),
                                  "\\u5f53\\u524d\\u4f59\\u989d\\uff1a" \o ToString(balance.val)
                                  \o "\\uff0c\\u9700\\u8981\\uff1a" \o ToString(amount)))
             ELSE Ok("OrderReason", << >>)

\* storage::save over save_db_impl, with STORAGE_CAPACITY = capacity and
\* `orders` orders in ORDERS: the Result and the number of orders stored after
storage_save(capacity, orders, order) ==
    LET saved == IF orders >= capacity
                 THEN Err("foreign", Foreign("Storage capacity exceeded"))
                 ELSE Ok("foreign", << >>)
    IN  [result |-> owe_sys(saved, "StoreReason"),
         orders |-> IF orders >= capacity THEN orders ELSE orders + 1]

\* OrderService::save_order
save_order(capacity, orders, order) ==
    LET saved == storage_save(capacity, orders, order)
        typed == err_conv(saved.result, "OrderReason")
    IN  [result |-> IF typed.tag = "Err" THEN typed ELSE Ok("OrderReason", order),
         orders |-> saved.orders]

\* OrderService::place_order for the call c: the context it builds, the value
\* of each of its three statements (a statement after an early return has
\* none), the Result it returns and the number of orders stored after it; the
\* labels of want are written by their code points
place_order(c) ==
    LET ctx       == [OperationContext_want("place_order") EXCEPT
                          !.context = Append(@, <<"order", c.order_txt>>)]
        parsed    == owe_biz(
                         Result_with_pair(
                             Result_with(
                                 Result_want(parse_order(c.order_txt, c.amount),
                                             "\\u89e3\\u6790\\u8ba2\\u5355"),
                                 ctx),
                             "key", "value"),
                         "OrderReason")
        validated == Result_with(
                         Result_want(validate_funds(c.user_id, parsed.val.amount),
                                     "\\u9a8c\\u8bc1\\u8d44\\u91d1"),
                         ctx)
        saved     == save_order(c.capacity, c.orders,
                                [user_id |-> c.user_id, amount |-> c.amount])
        last      == Result_want(saved.result, "\\u4fdd\\u5b58\\u8ba2\\u5355")
    IN  [ctx       |-> ctx,
         parsed    |-> parsed,
         validated |-> IF parsed.tag = "Err" THEN None ELSE validated,
         saved     |-> IF parsed.tag = "Err" \/ validated.tag = "Err" THEN None ELSE last,
         result    |-> IF parsed.tag = "Err" THEN parsed
                       ELSE IF validated.tag = "Err" THEN validated
                       ELSE last,
         orders    |-> IF parsed.tag = "Err" \/ validated.tag = "Err"
                       THEN c.orders
                       ELSE saved.orders]

\* the calls of place_order: the arguments main passes and their neighbours,
\* against a storage of some capacity holding some orders
Calls ==
    [user_id : {123, 456}, amount : {200, 500, 600}, order_txt : {"", "valid_order"},
     capacity : {0, 1, 2}, orders : {0, 1}]

OrderInit ==
    /\ call \in Calls
    /\ res = Ok("ParseReason", << >>)
    /\ input = res
    /\ op = "init"
    /\ arg = None
    /\ steps = 0
    /\ origin = call
    /\ opctx = OperationContext_new
    /\ scope = None
    /\ log = << >>
    /\ alive = TRUE
    /\ before = Snapshot
    /\ marks = << >>

\* one statement `name` of place_order has given `out`
OrderApply(name, out) ==
    /\ res' = out
    /\ input' = res
    /\ op' = name
    /\ arg' = None
    /\ steps' = steps + 1
    /\ UNCHANGED <<origin, scope, log, alive, before, marks>>

\* let mut ctx = ..; let order = Self::parse_order(..).want(..).with(&ctx)
\*     .with((..)).owe_biz()?;
ParseOrder ==
    /\ op = "init"
    /\ opctx' = place_order(call).ctx
    /\ OrderApply("parse_order", place_order(call).parsed)
    /\ UNCHANGED call

\* Self::validate_funds(..).want(..).with(&ctx)?;
ValidateFunds ==
    /\ op = "parse_order"
    /\ res.tag = "Ok"
    /\ OrderApply("validate_funds", place_order(call).validated)
    /\ UNCHANGED <<opctx, call>>

\* Self::save_order(order).want(..)
SaveOrder ==
    /\ op = "validate_funds"
    /\ res.tag = "Ok"
    /\ OrderApply("save_order", place_order(call).saved)
    /\ call' = [call EXCEPT !.orders = place_order(call).orders]
    /\ UNCHANGED opctx

OrderNext ==
    \/ ParseOrder
    \/ ValidateFunds
    \/ SaveOrder

OrderSpec == OrderInit /\ [][OrderNext]_vars

(* ------------------------------ claims --------------------------------- *)

\* the operations that re-type an error: err_conv on a Result, conv on an error
ConvOps == {"err_conv", "conv"}

\* the last operation was applied to an Err
OnErr == input.tag = "Err"

\* C1: converting an error whose reason is Universal(u) (convert_error, through
\* conv or err_conv, to any target type with a reason mapping) gives an error
\* whose reason is exactly Universal(u), never a Domain reason.
C1_ConversionPreservesUniversal ==
    (op \in ConvOps /\ OnErr /\ input.err.reason.arm = "Universal")
        => /\ res.tag = "Err"
           /\ res.err.reason.arm = "Universal"
           /\ res.err.reason.uvs = input.err.reason.uvs

\* a Universal error has been re-typed by err_conv into another reason type
C1_Witness ==
    /\ op = "err_conv"
    /\ OnErr
    /\ input.err.reason.arm = "Universal"
    /\ res.ety # input.ety
    /\ res.err.R = arg

\* C2: convert_error changes only the reason: detail, position, target and
\* context (same entries, same order) of the result equal those of the input,
\* for a Universal and for a Domain reason alike.
C2_ConversionFrame ==
    (op \in ConvOps /\ OnErr)
        => /\ res.tag = "Err"
           /\ res.err.detail = input.err.detail
           /\ res.err.position = input.err.position
           /\ res.err.target = input.err.target
           /\ res.err.context = input.err.context

\* an error with a Domain reason and all four other fields set has been
\* converted, and its reason changed
C2_Witness ==
    /\ op = "conv"
    /\ OnErr
    /\ input.err.reason.arm = "Domain"
    /\ input.err.detail # None
    /\ input.err.position # None
    /\ input.err.target # None
    /\ Len(input.err.context) = 2
    /\ input.err.detail # input.err.position
    /\ res.err.reason # input.err.reason

\* C3: err_conv is convert_error lifted to Result: Ok(v) stays Ok(v), Err(e)
\* becomes Err(convert_error(e)), and a Domain(d) reason becomes the reason
\* mapping of the target type applied to d (TestError becomes AnotherError,
\* NotFound becomes the business error "logic fail", StorageFull the system
\* error "sys fail", a wrapped UvsReason stays wrapped).
C3_ErrConvLifts ==
    op = "err_conv"
        => /\ input.tag = "Ok" => (res.tag = "Ok" /\ res.val = input.val)
           /\ OnErr => /\ res.tag = "Err"
                       /\ res.err = convert_error(arg, input.err)
           /\ (OnErr /\ input.err.reason.arm = "Domain")
                  => LET d == input.err.reason.dom
                         r == res.err.reason
                     IN  /\ r = StructReason_from(arg, d)
                         /\ (d.ty = "TestReason" /\ d.tag = "TestError" /\ arg = "AnotherReason")
                                => r = Domain(Unit("AnotherReason", "AnotherError"))
                         /\ (d.ty = "UserReason" /\ d.tag = "NotFound" /\ arg = "OrderReason")
                                => r = Domain(R_from_UvsReason("OrderReason",
                                                  business_error("logic fail")))
                         /\ (d.ty = "StoreReason" /\ d.tag = "StorageFull" /\ arg = "OrderReason")
                                => r = Domain(R_from_UvsReason("OrderReason",
                                                  system_error("sys fail")))
                         /\ (d.tag = "Uvs" /\ <<d.ty, arg>> \in FromPairs)
                                => r = Domain(R_from_UvsReason(arg, d.uvs))

\* err_conv has mapped the Domain reason TestError of an Err to AnotherError
C3_Witness ==
    /\ op = "err_conv"
    /\ OnErr
    /\ input.err.reason = Domain(Unit("TestReason", "TestError"))
    /\ res.tag = "Err"
    /\ res.err.reason = Domain(Unit("AnotherReason", "AnotherError"))

\* the error code table of the universal reasons, by category
CodeTable ==
    [ValidationError |-> 100, BusinessError |-> 101, NotFoundError |-> 102,
     PermissionError |-> 103, LogicError |-> 104, DataError |-> 200,
     SystemError |-> 201, NetworkError |-> 202, ResourceError |-> 203,
     TimeoutError |-> 204, ConfigError |-> 300, ExternalError |-> 301]

\* the error of the Result has the universal reason Universal(u)
HoldsUniversal == res.tag = "Err" /\ IsStruct(res) /\ res.err.reason.arm = "Universal"

BuilderOps == {"with_detail", "with_position", "want", "position", "with", "with_pair"}

\* C5: error_code() of a StructError is error_code() of its reason: the table
\* code of u for Universal(u), the domain reason's own error_code() for
\* Domain(d); with_detail, with_position, want and with never change it.
C5_ErrorCodeDelegates ==
    /\ op = "error_code"
           => arg = IF res.err.reason.arm = "Universal"
                    THEN CodeTable[res.err.reason.uvs.kind]
                    ELSE Domain_error_code(res.err.reason.dom)
    /\ (op \in BuilderOps /\ OnErr /\ res.ety \in ErrorCodeTypes)
           => /\ res.tag = "Err"
              /\ StructError_error_code(res.err) = StructError_error_code(input.err)

\* error_code() has answered the domain reason's own code 1001 for an error
\* that a builder operation had extended
C5_Witness ==
    /\ op = "error_code"
    /\ res.err.reason = Domain(Unit("TestReason", "TestError"))
    /\ arg = 1001
    /\ res.err.target = Some("B")

\* the owe_<category> operations
OweCategoryOps ==
    {"owe_validation", "owe_biz", "owe_logic", "owe_data", "owe_sys", "owe_net",
     "owe_res", "owe_timeout", "owe_conf"}

\* the table code of the category each owe_<category> classifies into
OweCode ==
    [owe_validation |-> 100, owe_biz |-> 101, owe_logic |-> 104, owe_data |-> 200,
     owe_sys |-> 201, owe_net |-> 202, owe_res |-> 203, owe_timeout |-> 204,
     owe_conf |-> 300]

OweCategory(name, msg) ==
    CASE name = "owe_validation" -> validation_error(msg)
      [] name = "owe_biz"        -> business_error(msg)
      [] name = "owe_logic"      -> logic_error(msg)
      [] name = "owe_data"       -> data_error(msg, None)
      [] name = "owe_sys"        -> system_error(msg)
      [] name = "owe_net"        -> network_error(msg)
      [] name = "owe_res"        -> resource_error(msg)
      [] name = "owe_timeout"    -> timeout_error(msg)
      [] name = "owe_conf"       -> core_conf(msg)

\* C7 as stated: owe_<category>(Err(e)) produces
\* StructError::from_universal(category(msg)).with_detail(msg), its reason in the
\* Universal arm carrying the chosen category.
C7_OweIsUniversal ==
    (op \in OweCategoryOps /\ OnErr)
        => /\ res.tag = "Err"
           /\ res.err.reason.arm = "Universal"
           /\ res.err.reason.uvs = OweCategory(op, input.err.msg)
           /\ res.err.detail = Some(input.err.msg)

\* C7 as amended: owe_<category>(Err(e)) produces
\* StructError::from(R::from(category(msg))).with_detail(msg): its reason is in
\* the Domain arm, the domain reason of the target type R that wraps the
\* UvsReason of the chosen category built from msg; position and target are
\* unset and the context is empty.
C7_OweIsDomainWrapped ==
    (op \in OweCategoryOps /\ OnErr)
        => /\ res.tag = "Err"
           /\ res.err.reason.arm = "Domain"
           /\ res.err.reason.dom.ty = arg
           /\ res.err.reason.dom.tag = "Uvs"
           /\ res.err.reason.dom.uvs = OweCategory(op, input.err.msg)
           /\ res.err.detail = Some(input.err.msg)
           /\ res.err.position = None
           /\ res.err.target = None
           /\ res.err.context = << >>

\* owe_net has classified a foreign error into a StoreReason wrapping the
\* network category
C7_Witness ==
    /\ op = "owe_net"
    /\ OnErr
    /\ arg = "StoreReason"
    /\ res.tag = "Err"
    /\ res.err.reason = Domain(R_from_UvsReason("StoreReason", network_error("disk full")))

\* C8: owe(r) applied to Err(e) yields an Err whose reason is Domain(r), r
\* unchanged and independent of e, whose detail is e.to_string(), and whose
\* position, target and context are empty.
C8_OweDomain ==
    (op = "owe" /\ OnErr)
        => /\ res.tag = "Err"
           /\ res.err.reason.arm = "Domain"
           /\ res.err.reason.dom = arg
           /\ res.err.detail = Some(input.err.msg)
           /\ res.err.position = None
           /\ res.err.target = None
           /\ res.err.context = << >>

\* owe(InsufficientFunds) has wrapped the foreign error "boom"
C8_Witness ==
    /\ op = "owe"
    /\ input = Err("foreign", Foreign("boom"))
    /\ arg = Unit("OrderReason", "InsufficientFunds")
    /\ res.tag = "Err"
    /\ res.err.detail = Some("boom")

\* the operations lifted to Result
LiftedOps ==
    OweCategoryOps \cup {"owe", "err_conv", "want", "position", "with", "with_pair"}

\* C9: no Result-lifted operation swallows or invents an error: owe,
\* owe_<category>, err_conv, want, position and with turn Ok(v) into Ok(v) with
\* the same v and an Err into an Err; so after any chain of operations the
\* Result is Ok(v) if the chain started from Ok(v) and an Err if it started
\* from an Err.
C9_NeverSwallowed ==
    /\ op \in LiftedOps
           => /\ input.tag = "Ok" => (res.tag = "Ok" /\ res.val = input.val)
              /\ input.tag = "Err" => res.tag = "Err"
    /\ origin.tag = "Ok" => (res.tag = "Ok" /\ res.val = origin.val)
    /\ origin.tag = "Err" => res.tag = "Err"

\* a chain of two operations ending with `with` has kept the Err of a foreign
\* error that an owe operation adapted
C9_Witness ==
    /\ steps = 2
    /\ op = "with"
    /\ origin.tag = "Err"
    /\ res.tag = "Err"
    /\ res.err.detail = Some("boom")
    /\ res.err.context # << >>

\* C10: innermost-wins target: after a want(label) call on an error, target()
\* is the label of that call, whatever target an earlier call had set; in
\* particular e.want("A").want("B") has target Some("B").
C10_LastWantWins ==
    (op = "want" /\ OnErr)
        => /\ res.tag = "Err"
           /\ res.err.target = Some(arg)

\* want("B") has replaced the target "A" of an error
C10_Witness ==
    /\ op = "want"
    /\ OnErr
    /\ input.err.target = Some("A")
    /\ arg = "B"
    /\ res.err.target = Some("B")

\* C11 as stated: want(label) on an error with no context frame pushes one
\* new context frame whose target is label; on an error that already has
\* frames it leaves their number unchanged and sets the target to label.
C11_WantPushesFrame ==
    (op = "want" /\ OnErr)
        => /\ res.tag = "Err"
           /\ res.err.target = Some(arg)
           /\ input.err.context = << >> => Len(res.err.context) = 1
           /\ input.err.context # << >>
                  => Len(res.err.context) = Len(input.err.context)

\* C11 as amended: want(label) sets the target field of the error to label
\* and pushes nothing: the context of the error is the same before and after,
\* empty or not, and so are the reason, the detail and the position.
C11_WantSetsTargetOnly ==
    (op = "want" /\ OnErr)
        => /\ res.tag = "Err"
           /\ res.err = [input.err EXCEPT !.target = Some(arg)]
           /\ res.err.context = input.err.context

\* want("A") has labelled an error whose context was and stays empty
C11_Witness ==
    /\ op = "want"
    /\ OnErr
    /\ arg = "A"
    /\ input.err.context = << >>
    /\ res.err.context = << >>
    /\ res.err.target = Some("A")

\* C12 as stated: with_context appends: the context of e.with_context(ctx) is
\* all context already attached to e, in its original order, followed by the
\* content of ctx; nothing previously attached is removed or replaced; the
\* same holds for with(ctx).
C12_WithContextAppends ==
    /\ (op = "with_context" /\ OnErr)
           => res.err.context = input.err.context \o arg
    /\ (op = "with" /\ OnErr)
           => res.err.context = input.err.context \o arg.context

\* C13: attaching a context overwrites the target of the error with the
\* target of the context if and only if the context carries one; a context
\* with no target leaves the target of the error unchanged, and a bare
\* key/value pair never changes it.
C13_TargetOverwrittenIffCarried ==
    /\ (op = "with" /\ OnErr)
           => res.err.target = IF arg.target # None
                               THEN arg.target
                               ELSE input.err.target
    /\ (op = "with_pair" /\ OnErr)
           => res.err.target = input.err.target

\* a context without a target has been attached to an error whose target
\* "target_resource" is kept
C13_Witness ==
    /\ op = "with"
    /\ OnErr
    /\ arg.target = None
    /\ input.err.target = Some("target_resource")
    /\ res.err.target = Some("target_resource")
    /\ res.err.context # input.err.context

\* C14: with_detail and with_position are last-write-wins and touch only
\* their own field: the detail (position) is the text of the last call,
\* whatever was set before, and the reason, the target, the context and the
\* other text field are unchanged.
C14_LastWriteWins ==
    /\ (op = "with_detail" /\ OnErr)
           => res.err = [input.err EXCEPT !.detail = Some(arg)]
    /\ (op = "with_position" /\ OnErr)
           => res.err = [input.err EXCEPT !.position = Some(arg)]

\* with_detail has replaced a detail that was already set
C14_Witness ==
    /\ op = "with_detail"
    /\ OnErr
    /\ input.err.detail = Some("Detailed error description")
    /\ arg = "missing db config"
    /\ res.err.detail = Some("missing db config")
    /\ res.err.position = Some("file.rs:10:5")

\* C15 as stated: the outcome of an OperationContext starts at Fail for every
\* constructor and, under any sequence of mark and scope-guard operations,
\* makes only the transitions Fail -> Success and Fail -> Cancel: once it is
\* Success or Cancel it never changes again.
C15_OutcomeTerminal ==
    /\ op = "init" => opctx.result = "Fail"
    /\ before.ctx.result \in {"Suc", "Cancel"} => opctx.result = before.ctx.result

\* C16 as stated: for an OperationContext with auto_log set, over any sequence
\* of record, mark and scope-guard operations and of attaching it by reference
\* or cloning it, exactly one exit-log line is emitted, at the exit of its
\* owning scope and not before.
C16_ExactlyOneExitLog ==
    opctx.exit_log
        => /\ alive => log = << >>
           /\ ~alive => Len(log) = 1

\* C17: record(key, value) appends exactly one entry at the end of the entry
\* list of the context: earlier entries stay in place and in order, an entry
\* with the same key is kept as a separate entry, and the target, the outcome
\* and auto_log are unchanged.
C17_RecordAppends ==
    op = "record"
        => /\ opctx.context = Append(before.ctx.context, arg)
           /\ Len(opctx.context) = Len(before.ctx.context) + 1
           /\ opctx.target = before.ctx.target
           /\ opctx.result = before.ctx.result
           /\ opctx.exit_log = before.ctx.exit_log

\* the same key and value have been recorded twice and both entries are kept
C17_Witness ==
    /\ op = "record"
    /\ before.ctx.context = << <<"key", "value">> >>
    /\ arg = <<"key", "value">>
    /\ opctx.context = << <<"key", "value">>, <<"key", "value">> >>

\* the operations on the context and on its guard
ContextOps ==
    {"record", "with_want", "mark_suc", "mark_cancel", "scope", "scoped_success",
     "mark_success", "mark_failure", "cancel", "scope_exit", "clone", "exit"}

\* C18: attaching an OperationContext to a StructError copies it:
\* err.with(&ctx) leaves ctx as it was and gives the error ctx's target and
\* entries; any later record, with_want, mark or guard operation on ctx
\* leaves the error unchanged, and any later builder operation on the error
\* leaves ctx unchanged.
C18_AttachCopies ==
    /\ op = "with_ref"
           => /\ opctx = before.ctx
              /\ res.err.context = input.err.context \o opctx.context
              /\ opctx.target # None => res.err.target = opctx.target
    /\ op \in ContextOps => res = input
    /\ op \in {"want", "with_pair"} => opctx = before.ctx

\* a record on the context after it was attached: the error still has the one
\* entry the context had then, the context has two
C18_Witness ==
    /\ op = "record"
    /\ res.err.context = << <<"existing_key", "existing_value">> >>
    /\ before.ctx.context = << <<"existing_key", "existing_value">> >>
    /\ Len(opctx.context) = 2

\* an optional line of the rendering: "-> <label>: <text>" on a new indented
\* line iff the field is set
OptionalLine(label, field) ==
    IF field = None THEN << >> ELSE << "\n  -> " \o label \o ": " \o field[1] >>

\* the lines of the rendering of an error in the order the contract fixes
RenderedLines(e) ==
    << "[" \o ToString(StructError_error_code(e)) \o "] " \o StructReason_fmt(e.reason) >>
    \o OptionalLine("At", e.position)
    \o OptionalLine("Want", e.target)
    \o OptionalLine("Details", e.detail)
    \o (IF e.context = << >> THEN << >> ELSE << "\n  -> Context stack:" >>)
    \o [i \in 1..Len(e.context) |->
            "\n     " \o ToString(i) \o ". " \o e.context[i][1] \o ":" \o e.context[i][2]]

\* the lines one after the other
Concat(lines) ==
    LET Upto[i \in 0..Len(lines)] == IF i = 0 THEN "" ELSE Upto[i - 1] \o lines[i]
    IN  Upto[Len(lines)]

RetryableKinds ==
    {"NetworkError", "TimeoutError", "ResourceError", "SystemError", "ExternalError"}

\* C20: is_retryable() is true exactly for the categories Network, Timeout,
\* Resource, System and External, and false for every other category
\* (Validation, Business, NotFound, Permission, Logic, Data, Config), whatever
\* the message.
C20_RetryableCategories ==
    (op = "is_retryable" /\ HoldsUniversal)
        => LET u == res.err.reason.uvs
           IN  /\ arg = (u.kind \in RetryableKinds)
               /\ \A v \in UvsReasons : v.kind = u.kind => is_retryable(v) = arg

\* is_retryable() has answered false for a data error with a position
C20_Witness ==
    /\ op = "is_retryable"
    /\ HoldsUniversal
    /\ res.err.reason.uvs = data_error("disk full", Some(3))
    /\ arg = FALSE

\* the categories logged with high severity
HighSeverityKinds == {"SystemError", "ResourceError", "ConfigError"}

\* C21: is_high_severity() is true exactly for the categories System,
\* Resource and Config (all three config sub-reasons), and false for every
\* other category.
C21_HighSeverityCategories ==
    (op = "is_high_severity" /\ HoldsUniversal)
        => LET u == res.err.reason.uvs
           IN  /\ arg = (u.kind \in HighSeverityKinds)
               /\ \A v \in UvsReasons : v.kind = u.kind => is_high_severity(v) = arg

\* is_high_severity() has answered true for a feature config reason
C21_Witness ==
    /\ op = "is_high_severity"
    /\ HoldsUniversal
    /\ res.err.reason.uvs = feature_conf("boom")
    /\ arg = TRUE

\* place_order has returned: with the Err a `?` met, or after its last statement
Returned ==
    \/ op \in {"parse_order", "validate_funds"} /\ res.tag = "Err"
    \/ op = "save_order"

\* the four failing calls of main; the fourth after STORAGE_CAPACITY.store(0)
MainCases ==
    { [user_id |-> 123, amount |-> 200, order_txt |-> "", capacity |-> 2, orders |-> 0],
      [user_id |-> 456, amount |-> 200, order_txt |-> "valid_order", capacity |-> 2,
       orders |-> 0],
      [user_id |-> 123, amount |-> 600, order_txt |-> "valid_order", capacity |-> 2,
       orders |-> 0],
      [user_id |-> 123, amount |-> 200, order_txt |-> "valid_order", capacity |-> 0,
       orders |-> 0] }

\* C22: in the order placement scenario each of the four failing inputs makes
\* place_order return an Err, the four errors are pairwise distinct, and each
\* is coded as listed: an empty order text gives a Business-coded error (101);
\* the unknown user id 456 gives a NotFound/Business-coded error coming from
\* get_balance; amount 600 against balance 500 gives an InsufficientFunds
\* error whose detail names the balance 500 and the required 600; storage
\* capacity 0 gives a System/Resource-coded error (201 or 203) from the
\* storage layer.
C22_OrderScenarioCodes ==
    Returned
        => /\ origin.order_txt = ""
                => /\ res.tag = "Err"
                   /\ StructError_error_code(res.err) = 101
                   /\ res.err.reason.arm = "Domain"
                   /\ res.err.reason.dom.uvs.kind = "BusinessError"
           /\ (origin.order_txt # "" /\ origin.user_id = 456)
                => /\ res.tag = "Err"
                   /\ StructError_error_code(res.err) \in {101, 102}
                   /\ res.err.reason
                          = Domain(OrderReason_from_UserReason(Unit("UserReason", "NotFound")))
                   /\ res.err.detail = Some("uid:456")
           /\ (origin.order_txt # "" /\ origin.user_id = 123 /\ origin.amount = 600)
                => /\ res.tag = "Err"
                   /\ res.err.reason = Domain(Unit("OrderReason", "InsufficientFunds"))
                   /\ res.err.detail
                          = Some("\\u5f53\\u524d\\u4f59\\u989d\\uff1a500\\uff0c\\u9700\\u8981\\uff1a600")
           /\ (origin.order_txt # "" /\ origin.user_id = 123 /\ origin.amount <= 500
                   /\ origin.capacity = 0)
                => /\ res.tag = "Err"
                   /\ StructError_error_code(res.err) \in {201, 203}
                   /\ res.err.reason = Domain(R_from_UvsReason("OrderReason",
                                                 system_error("Storage capacity exceeded")))
                   /\ res.err.detail = Some("Storage capacity exceeded")
           /\ origin \in MainCases
                => /\ res.tag = "Err"
                   /\ \A c \in MainCases \ {origin} : place_order(c).result # res

\* the fourth case of main: every statement ran and the storage refused
C22_Witness ==
    /\ Returned
    /\ op = "save_order"
    /\ origin = [user_id |-> 123, amount |-> 200, order_txt |-> "valid_order",
                 capacity |-> 0, orders |-> 0]
    /\ res.tag = "Err"
    /\ StructError_error_code(res.err) = 201

\* the rendering of the error has a "-> Want:" line naming the label (the
\* texts of the other lines of the errors of the example are fixed and name
\* no label)
NamesTarget(e, label) ==
    \E i \in 1..Len(RenderedLines(e)) : RenderedLines(e)[i] = "\n  -> Want: " \o label

\* C23: in the order placement scenario the Display text of every error
\* returned by place_order contains the target chain of the call path: the
\* outer target "place_order" together with the label of the failing step
\* (validate funds for a funds or user failure, save order for a storage
\* failure).
C23_DisplayNamesTargetChain ==
    (Returned /\ res.tag = "Err" /\ op \in {"validate_funds", "save_order"})
        => /\ NamesTarget(res.err, "place_order")
           /\ NamesTarget(res.err, IF op = "validate_funds"
                                   THEN "\\u9a8c\\u8bc1\\u8d44\\u91d1"
                                   ELSE "\\u4fdd\\u5b58\\u8ba2\\u5355")

\* the reason is Domain(wrap(u)): the variant of the domain enum that wraps a
\* UvsReason
WrapsUvs(e) ==
    /\ e.reason.arm = "Domain"
    /\ e.reason.dom.tag = "Uvs"
    /\ e.reason.dom.ty \in {"OrderReason", "StoreReason", "ParseReason", "TestReason",
                            "AnotherReason"}

\* C24: every domain reason enum that wraps a UvsReason (OrderReason,
\* StoreReason and ParseReason of the order example, TestReason and
\* AnotherReason of the conversion tests) reports, for its wrapping variant,
\* the error_code of the embedded UvsReason, so an error carrying
\* Domain(wrap(u)) has error_code u.error_code(), and this code is the same
\* before and after conv / err_conv.
C24_WrapperDelegatesCode ==
    /\ (op = "error_code" /\ WrapsUvs(res.err))
           => arg = UvsReason_error_code(res.err.reason.dom.uvs)
    /\ (op \in ConvOps /\ OnErr /\ WrapsUvs(input.err) /\ res.ety \in ErrorCodeTypes)
           => /\ res.tag = "Err"
              /\ StructError_error_code(res.err)
                     = UvsReason_error_code(input.err.reason.dom.uvs)

\* C25: whether a scope guard writes Success at its exit depends only on the
\* last marking call made on it: a guard from scoped_success() writes Success
\* to its context at exit unless mark_failure() or cancel() was called last,
\* and a guard from scope() writes nothing at exit unless mark_success() was
\* called last; a guard that does not write Success leaves the context's
\* outcome as it was.
C25_LastMarkDecides ==
    op = "scope_exit"
        => /\ marks # << >>
           /\ marks[1] \in {"scope", "scoped_success"}
           /\ opctx = IF marks[Len(marks)] \in {"scoped_success", "mark_success"}
                      THEN [before.ctx EXCEPT !.result = "Suc"]
                      ELSE before.ctx

\* a guard from scoped_success() marked failed and then successful has written
\* Success over Fail at its exit
C25_Witness ==
    /\ op = "scope_exit"
    /\ marks = <<"scoped_success", "mark_failure", "mark_success">>
    /\ before.ctx.result = "Fail"
    /\ opctx.result = "Suc"

\* C26: once cancel() has been called on a scope guard, that guard does not
\* write Success at its exit, and the context's outcome is Cancel after the
\* guard exits.
C26_CancelSticks ==
    (op = "scope_exit" /\ \E i \in 1..Len(marks) : marks[i] = "cancel")
        => /\ opctx = before.ctx
           /\ opctx.result = "Cancel"

\* C27: from_uvs(e, reason) replaces only the reason: the result has reason
\* Universal(reason) and the same detail, the same position, the same target
\* and the same context as e (detail stays in detail, position stays in
\* position).
C27_FromUvsReplacesReasonOnly ==
    op = "from_uvs"
        => /\ res.tag = "Err"
           /\ res.err.reason = Universal(arg.reason)
           /\ res.err.detail = input.err.detail
           /\ res.err.position = input.err.position
           /\ res.err.target = input.err.target
           /\ res.err.context = input.err.context

\* C28: stc_err_from re-types an error without losing diagnostic information:
\* Universal(u) stays Universal(u), Domain(d) becomes Domain(R2::from(d)), and
\* the result carries the same detail, position and context as the input
\* error.
C28_StcErrFromLossless ==
    op = "stc_err_from"
        => /\ res.tag = "Err"
           /\ res.err.reason
                  = IF input.err.reason.arm = "Universal"
                    THEN input.err.reason
                    ELSE Domain(IF input.ety = arg
                                THEN input.err.reason.dom
                                ELSE R2_from_R1(arg, input.err.reason.dom))
           /\ res.err.detail = input.err.detail
           /\ res.err.position = input.err.position
           /\ res.err.context = input.err.context

\* the outcome a guard with these marking calls leaves in a context that was
\* Fail when the guard was created
GuardOutcome(ms) ==
    IF ms[Len(ms)] \in {"scoped_success", "mark_success"} THEN "Suc"
    ELSE IF \E i \in 1..Len(ms) : ms[i] = "cancel" THEN "Cancel"
    ELSE "Fail"

\* the prefix of the exit log line for each outcome
ExitPrefix == [Suc |-> "suc!", Fail |-> "fail!", Cancel |-> "cancel!"]

\* the level of the exit log line for each outcome
ExitLevel == [Suc |-> "info", Fail |-> "error", Cancel |-> "warn"]

\* C29: a scope guard always exits before the context it borrows is dropped,
\* so for an auto_log context the guard's outcome write (Success, or Cancel
\* via cancel()) happens before the exit log is emitted and the log reports
\* the outcome decided through the guard, never a stale Fail.  The second
\* conjunct is about a context whose whole life was one guard: its creation,
\* the marking calls on it, its exit, and then the drop of the context.
C29_GuardWritesBeforeExitLog ==
    op = "exit"
        => /\ before.scope = None
           /\ (opctx.exit_log /\ marks # << >> /\ steps = Len(marks) + 2)
                  => /\ Len(log) = 1
                     /\ log[1].prefix = ExitPrefix[GuardOutcome(marks)]
                     /\ opctx.result = GuardOutcome(marks)

\* the context of a guard from scoped_success() has logged suc! at its drop
C29_Witness ==
    /\ op = "exit"
    /\ opctx.exit_log
    /\ marks = <<"scoped_success">>
    /\ steps = 3
    /\ log[1].prefix = "suc!"

\* the operations that drop an OperationContext: the context itself, or a
\* clone of it
DropOps == {"exit", "clone"}

\* C30: when an OperationContext is dropped with auto_log unset, no log line is
\* emitted whatever its outcome; with auto_log set, the level and prefix of the
\* emitted line are determined by the outcome at drop time: info "suc!" for
\* Success, error "fail!" for Fail, warn "cancel!" for Cancel.  Dropping never
\* changes the context's fields.
C30_DropLogsByOutcome ==
    op \in DropOps
        => /\ opctx = before.ctx
           /\ ~opctx.exit_log => log = before.log
           /\ opctx.exit_log
                  => /\ Len(log) = Len(before.log) + 1
                     /\ SubSeq(log, 1, Len(before.log)) = before.log
                     /\ log[Len(log)].level = ExitLevel[opctx.result]
                     /\ log[Len(log)].prefix = ExitPrefix[opctx.result]

\* a cancelled auto_log context has been dropped and has logged cancel! at
\* level warn
C30_Witness ==
    /\ op = "exit"
    /\ opctx.exit_log
    /\ opctx.result = "Cancel"
    /\ log[Len(log)].level = "warn"
    /\ log[Len(log)].prefix = "cancel!"

====
